---- MODULE Spec2Model ----
(***************************************************************************)
(* Copy-trading session manager (src/src/copyTrading/session.ts) together  *)
(* with the order executor (src/src/copyTrading/clobExecutor.ts) and the   *)
(* market cache (src/src/markets/cache.ts).                                *)
(*                                                                         *)
(* Units.  Prices are in cents, sizes in shares, sizeScale in tenths, so   *)
(* size * price * sizeScale is a USDC amount in thousandths of a dollar;   *)
(* every configured amount (maxSizePerTrade, minTradeSize, totalLimit,     *)
(* maxTotalPerMarket) is in the same unit.  An optional configuration      *)
(* field is a set with at most one element: {} is "undefined".             *)
(*                                                                         *)
(* Every async function is cut at its awaits: one action runs the code     *)
(* between two suspension points, as the single-threaded runtime does.     *)
(***************************************************************************)
EXTENDS Integers, Sequences, FiniteSets, Bags, TLC

\* ------------------------------------------------------------------ bounds

\* Feed events accepted into the pipeline during one behaviour.
MaxEvents == 2
\* The dedupe window, scaled down from the 2000 of session.ts:112.
KeepLast == 1

\* ----------------------------------------------------------------- domains

\* The handles the feed gives out, one per subscribe call; start() is
\* called at most once per handle.
SubscriptionIds == {1, 2}
TxHashes == {1, 2, 3}
Sides == {"BUY", "SELL"}
Prices == {40, 80}
Sizes == {1}
Markets == {"m1", "m2"}

\* The Gamma API knows the event "m1"; the fetch for "m2" gives nothing
\* (a 404 or a failed request).
GammaFinds(slug) == slug = "m1"

\* The tag slugs the Gamma API holds for an event slug.
GammaTags(slug) == IF slug = "m1" THEN {"Sports"} ELSE {}

\* Event identifiers are interchangeable: the feed delivers an identifier
\* the dedupe set holds, or the first one it does not hold.
FeedHashes(seen) ==
    LET held == {seen[i] : i \in 1..Len(seen)}
        new == TxHashes \ held
    IN  held \cup {t \in new : \A u \in new : t <= u}

\* The events the feed can deliver: trades of the target, under a
\* differently cased address (the lower price only occurs for buys in the
\* first market), one trade of another wallet and one without a trader
\* address, written "".
Trades ==
    {t \in [address : {"0xAbC"}, transactionHash : TxHashes, side : Sides,
            price : Prices, size : Sizes, marketSlug : Markets] :
        t.price = 40 => (t.side = "BUY" /\ t.marketSlug = "m1")}
    \cup [address : {"0xdef", ""}, transactionHash : {1}, side : {"BUY"},
          price : {40}, size : {1}, marketSlug : {"m1"}]

Config(dryRun, categories, totalLimit, maxOdds, maxTotalPerMarket) ==
    [targetAddress |-> "0xABC", dryRun |-> dryRun, sizeScale |-> 5,
     maxSizePerTrade |-> 500, minTradeSize |-> 300, categories |-> categories,
     totalLimit |-> totalLimit, maxOdds |-> maxOdds,
     maxTotalPerMarket |-> maxTotalPerMarket]

\* The session configurations an operator starts: dry-run and live, with
\* and without a total limit, every optional gate on in one of them.
Configs ==
    { Config(TRUE, {}, {700}, {}, {500}),
      Config(FALSE, {"sports"}, {300}, {50}, {}),
      Config(FALSE, {}, {}, {}, {500}) }

NoSession == [active |-> FALSE]

NoResult == [kind |-> "none", success |-> FALSE, copyUsdcAmount |-> 0]

VARIABLES
    activeSession,      \* this.activeSession: NoSession or the SessionState
    seenTransactions,   \* this.seenTransactions, in insertion order
    cache,              \* MarketCache.cache: slug -> {} (absent) or {tags}
    liveSubs,           \* feed subscriptions subscribed and not unsubscribed
    starting,           \* start() calls suspended at the 1 second delay, each
                        \* with its handle, its config and whether it replaced
                        \* an active session
    handlers,           \* bag of handleTrade invocations suspended at an await
    accepted,           \* events that passed the address and dedupe filters
    started,            \* start() calls made
    notice,             \* the notification the step just taken tried to send
    feed,               \* whether the feed may still invoke the callback of a
                        \* subscription after its unsubscribe, and the
                        \* subscriptions unsubscribed so far if it may
    recentIds,          \* history: the last KeepLast identifiers the session accepted
    order,              \* the copy order ClobExecutor.execute is working out
    resolver,           \* MarketMetadataResolver: its cache entry for one
                        \* market, the clock, and the resolve calls in flight
    ledger              \* history: the USDC of the copies carried out for
                        \* the session that is active, by market and side

vars ==
    <<activeSession, seenTransactions, cache, liveSubs, starting, handlers,
      accepted, started, notice, feed, recentIds, order, resolver, ledger>>

\* ------------------------------------------------------- pure helpers

\* String.prototype.toLowerCase on the strings of the model.
ToLowerCase(a) ==
    IF a \in {"0xABC", "0xAbC"} THEN "0xabc"
    ELSE IF a = "Sports" THEN "sports"
    ELSE a

\* `config.totalLimit && ...`: undefined and 0 are both falsy.
Truthy(opt) == \E v \in opt : v # 0

Value(opt) == CHOOSE v \in opt : TRUE

\* A sizing without the cap of maxSizePerTrade.
PlannedCopyUsdcAmount_Uncapped(trade, config) ==
    trade.size * trade.price * config.sizeScale

\* leaderNotional * sizeScale, clamped to maxSizePerTrade.
PlannedCopyUsdcAmount(trade, config) ==
    LET leaderNotional == trade.size * trade.price
        scaled == leaderNotional * config.sizeScale
    IN  IF scaled > config.maxSizePerTrade THEN config.maxSizePerTrade ELSE scaled

\* seenTransactions.has(txHash)
SeenHas(seen, txHash) == \E i \in 1..Len(seen) : seen[i] = txHash

\* A dedupe set that evicts one insertion too early.
SeenAdd_EvictEarly(seen, txHash) ==
    LET added == Append(seen, txHash)
    IN  IF Len(added) >= KeepLast THEN Tail(added) ELSE added

\* seenTransactions.add(txHash) and the eviction of the first item.
SeenAdd(seen, txHash) ==
    LET added == Append(seen, txHash)
    IN  IF Len(added) > KeepLast
        THEN (IF Head(added) # 0 THEN Tail(added) ELSE added)
        ELSE added

\* The last KeepLast entries of a history of accepted identifiers.
Recent(ids) ==
    IF Len(ids) > KeepLast THEN SubSeq(ids, Len(ids) - KeepLast + 1, Len(ids)) ELSE ids

NewSessionState(config, sub) ==
    [active |-> TRUE, config |-> config, subscription |-> sub,
     cumulativeSpent |-> 0, spentByMarket |-> [m \in Markets |-> 0],
     skippedCount |-> 0]

\* `if (this.activeSession) this.activeSession.skippedCount++`
IncrementSkipped(session) ==
    IF session.active
    THEN [session EXCEPT !.skippedCount = @ + 1]
    ELSE session

\* The subscriptions left live when the session's handle is unsubscribed.
Unsubscribe(session, subs) == {s \in subs : s.id # session.subscription}

\* A stop() that keeps the session when unsubscribe throws.
StopEffect_ThrowKeepsSession(session, seen, subs, unsubThrows) ==
    IF ~session.active \/ unsubThrows
    THEN [session |-> session, seen |-> seen, subs |-> subs, threw |-> unsubThrows]
    ELSE [session |-> NoSession, seen |-> <<>>,
          subs |-> Unsubscribe(session, subs), threw |-> FALSE]

\* What stop() leaves behind.  A throwing unsubscribe still ends the
\* subscription; the dedupe set is then not cleared.
StopEffect(session, seen, subs, unsubThrows) ==
    IF ~session.active
    THEN [session |-> session, seen |-> seen, subs |-> subs, threw |-> FALSE]
    ELSE [session |-> NoSession,
          seen |-> IF unsubThrows THEN seen ELSE <<>>,
          subs |-> Unsubscribe(session, subs),
          threw |-> unsubThrows]

\* What the feed remembers of the subscriptions that stop() ended.
Ended(f, before, after) ==
    IF f.late THEN [f EXCEPT !.ended = @ \cup (before \ after)] ELSE f

\* The state after construction, apart from the feed.
Constructed ==
    /\ activeSession = NoSession
    /\ seenTransactions = <<>>
    /\ cache = [m \in Markets |-> {}]
    /\ liveSubs = {}
    /\ starting = {}
    /\ handlers = EmptyBag
    /\ accepted = 0
    /\ started = 0
    /\ notice = "none"
    /\ recentIds = <<>>

\* No copy order is being worked out.
NoOrder == [pc |-> "none"]

\* The resolver after construction: an empty cache, nothing resolved yet.
NewResolver ==
    [now |-> 0, cache |-> {}, pending |-> {}, calls |-> 0, remote |-> 0,
     returned |-> [kind |-> "none", age |-> 0]]

\* No record is kept of the copies carried out.
NoLedger == [on |-> FALSE]

\* The record of the copies carried out for a session that has just begun.
NewLedger == [on |-> TRUE, spent |-> [m \in Markets |-> [s \in Sides |-> 0]]]

\* The record after a session state was stored: it starts anew.
LedgerOfNewSession(l) == IF l.on THEN NewLedger ELSE l

\* The record after a handler of subscription sub carried a copy out (the
\* dry run simulated it, or the exchange accepted the order): the amount
\* counts for the session that holds the subscription.
Carry(l, session, sub, trade, result, carried) ==
    IF l.on /\ carried /\ session.active /\ session.subscription = sub
    THEN [l EXCEPT !.spent[trade.marketSlug][trade.side] = @ + result.copyUsdcAmount]
    ELSE l

\* A feed that invokes no callback once unsubscribe was called.
Init ==
    /\ Constructed
    /\ feed = [late |-> FALSE, ended |-> {}]
    /\ order = NoOrder
    /\ resolver = NewResolver
    /\ ledger = NoLedger

\* The same, with a record kept of the copies carried out.
InitLedger ==
    /\ Constructed
    /\ feed = [late |-> FALSE, ended |-> {}]
    /\ order = NoOrder
    /\ resolver = NewResolver
    /\ ledger = NewLedger

\* A feed that may still invoke the callback of an unsubscribed handle.
InitLate ==
    /\ Constructed
    /\ feed = [late |-> TRUE, ended |-> {}]
    /\ order = NoOrder
    /\ resolver = NewResolver
    /\ ledger = NoLedger

\* ------------------------------------------------------- lifecycle

SessionToStop_Skipped(session) == NoSession

\* The session start() stops before it subscribes: the active one.
SessionToStop(session) == session

\* start(config) up to its first suspension: the implicit stop().  The
\* operator issues lifecycle calls one after the other.
StartCall(config, unsubThrows) ==
    /\ started + 1 \in SubscriptionIds
    /\ starting = {}
    /\ started' = started + 1
    /\ LET st == StopEffect(SessionToStop(activeSession), seenTransactions,
                            liveSubs, unsubThrows)
       IN  /\ activeSession' = st.session
           /\ seenTransactions' = st.seen
           /\ liveSubs' = st.subs
           /\ feed' = Ended(feed, liveSubs, st.subs)
           /\ recentIds' = IF activeSession.active THEN <<>> ELSE recentIds
           /\ notice' = "none"
           /\ starting' = IF st.threw THEN {}
                          ELSE {[id |-> started + 1, config |-> config,
                                 replaced |-> activeSession.active]}
    /\ UNCHANGED <<cache, handlers, accepted, order, resolver, ledger>>

\* start(config) called while an earlier start() is still suspended: the
\* same code up to its first suspension, with nothing that holds it back.
StartCallOverlapping(config, unsubThrows) ==
    /\ started + 1 \in SubscriptionIds
    /\ starting # {}
    /\ started' = started + 1
    /\ LET st == StopEffect(SessionToStop(activeSession), seenTransactions,
                            liveSubs, unsubThrows)
       IN  /\ activeSession' = st.session
           /\ seenTransactions' = st.seen
           /\ liveSubs' = st.subs
           /\ feed' = Ended(feed, liveSubs, st.subs)
           /\ recentIds' = IF activeSession.active THEN <<>> ELSE recentIds
           /\ notice' = "none"
           /\ starting' = IF st.threw THEN starting
                          ELSE starting \cup {[id |-> started + 1, config |-> config,
                                               replaced |-> activeSession.active]}
    /\ UNCHANGED <<cache, handlers, accepted, order, resolver, ledger>>

\* start(config) after the delay: subscribe and store the session state.
StartSubscribe(p, subscribeThrows) ==
    /\ p \in starting
    /\ starting' = starting \ {p}
    /\ IF subscribeThrows
       THEN UNCHANGED <<activeSession, liveSubs, ledger>>
       ELSE /\ liveSubs' = liveSubs \cup {p}
            /\ activeSession' = NewSessionState(p.config, p.id)
            /\ ledger' = LedgerOfNewSession(ledger)
    /\ notice' = "none"
    /\ UNCHANGED <<seenTransactions, cache, handlers, accepted, started,
                   feed, recentIds, order, resolver>>

\* How the promise of start() settles after the subscribe call: the catch
\* block logs and rethrows.
StartSettles(subscribeThrows) ==
    IF subscribeThrows THEN "rejected" ELSE "resolved"

\* stop() called by the operator.
StopCall(unsubThrows) ==
    /\ starting = {}
    /\ LET st == StopEffect(activeSession, seenTransactions, liveSubs, unsubThrows)
       IN  /\ activeSession' = st.session
           /\ seenTransactions' = st.seen
           /\ liveSubs' = st.subs
           /\ feed' = Ended(feed, liveSubs, st.subs)
           /\ recentIds' = IF activeSession.active THEN <<>> ELSE recentIds
           /\ notice' = "none"
    /\ UNCHANGED <<cache, starting, handlers, accepted, started, order, resolver, ledger>>

\* ------------------------------------------------------- event pipeline

\* A suspended handleTrade: the subscription whose callback started it, the
\* fields of the trade it still reads, the config its closure captured,
\* where it waits, what the cache answered.
Handler(sub, trade, config, pc, hit, result) ==
    [sub |-> sub, trade |-> trade, config |-> config, pc |-> pc, hit |-> hit,
     result |-> result]

TradeView(trade) ==
    [side |-> trade.side, price |-> trade.price, size |-> trade.size,
     marketSlug |-> trade.marketSlug]

Suspend(bag, h) == bag (+) SetToBag({h})

Resume(bag, h) == bag (-) SetToBag({h})

\* A max-odds gate that does not look at the side.
ExceedsMaxOdds_AnySide(trade, config) ==
    /\ config.maxOdds # {}
    /\ trade.price > Value(config.maxOdds)

\* The max-odds gate of handleTrade.
ExceedsMaxOdds(trade, config) ==
    /\ config.maxOdds # {}
    /\ trade.side = "BUY"
    /\ trade.price > Value(config.maxOdds)

\* A callback that compares the addresses as they are spelled.
OnTrade_CaseSensitive(config, seen, trade) ==
    IF trade.address = "" \/ trade.address # config.targetAddress
    THEN "foreign"
    ELSE IF SeenHas(seen, trade.transactionHash)
    THEN "duplicate"
    ELSE IF ExceedsMaxOdds(trade, config)
    THEN "skipOdds"
    ELSE "lookup"

\* What the onTrade callback does with an event: drops it as foreign or
\* as a duplicate, skips it at the max-odds gate, or looks its market up.
OnTrade(config, seen, trade) ==
    IF \/ ToLowerCase(trade.address) = ""
       \/ ToLowerCase(trade.address) # ToLowerCase(config.targetAddress)
    THEN "foreign"
    ELSE IF SeenHas(seen, trade.transactionHash)
    THEN "duplicate"
    ELSE IF ExceedsMaxOdds(trade, config)
    THEN "skipOdds"
    ELSE "lookup"

\* The onTrade callback: address filter, dedupe, then handleTrade up to its
\* first await.  A max-odds skip only has its notification left to send.
OnTradeEffect(sub, trade) ==
    LET verdict == OnTrade(sub.config, seenTransactions, trade)
        seen == SeenAdd(seenTransactions, trade.transactionHash)
        h == Handler(sub.id, TradeView(trade), sub.config, "marketInfo",
                     cache[trade.marketSlug], NoResult)
    IN  CASE verdict \in {"foreign", "duplicate"} ->
               [session |-> activeSession, seen |-> seenTransactions,
                handlers |-> handlers, notice |-> "none"]
          [] verdict = "skipOdds" ->
               [session |-> IncrementSkipped(activeSession), seen |-> seen,
                handlers |-> handlers, notice |-> "odds"]
          [] OTHER ->
               [session |-> activeSession, seen |-> seen,
                handlers |-> Suspend(handlers, h), notice |-> "none"]

\* The onTrade callback of a subscription runs for an event.
OnTradeStep(sub, trade) ==
    /\ LET verdict == OnTrade(sub.config, seenTransactions, trade)
           effect == OnTradeEffect(sub, trade)
       IN  /\ activeSession' = effect.session
           /\ seenTransactions' = effect.seen
           /\ handlers' = effect.handlers
           /\ notice' = effect.notice
           /\ IF verdict \in {"foreign", "duplicate"}
              THEN UNCHANGED <<accepted, recentIds>>
              ELSE /\ accepted < MaxEvents
                   /\ accepted' = accepted + 1
                   /\ recentIds' = Recent(Append(recentIds, trade.transactionHash))
    /\ UNCHANGED <<cache, liveSubs, starting, started, feed, order, resolver, ledger>>

\* The callback runs for an event with one of the identifiers the feed
\* delivers.
Callback(sub, trade) ==
    /\ trade.transactionHash \in FeedHashes(seenTransactions)
    /\ OnTradeStep(sub, trade)

\* The feed invokes the onTrade callback of a live subscription.
Deliver(sub, trade) == sub \in liveSubs /\ Callback(sub, trade)

\* The feed invokes the onTrade callback of a subscription that stop() has
\* unsubscribed: an event that was on its way.
DeliverLate(sub, trade) == sub \in feed.ended /\ Callback(sub, trade)

\* Events of the target whose transactionHash is the empty string, written
\* 0: the one falsy identifier.
BlankTrades ==
    [address : {"0xAbC"}, transactionHash : {0}, side : {"BUY"},
     price : {40}, size : {1}, marketSlug : {"m1"}]

\* The feed invokes the callback for an event with an empty identifier.
DeliverBlank(sub, trade) == sub \in liveSubs /\ OnTradeStep(sub, trade)

\* A category gate that compares the tags as the API spells them.
HasMatchingCategory_CaseSensitive(config, tags) ==
    \E cat \in config.categories : cat \in tags

\* The category gate: some configured category is among the market's
\* lower-cased tags.
HasMatchingCategory(config, tags) ==
    \E cat \in config.categories : cat \in {ToLowerCase(t) : t \in tags}

\* A per-market gate that compares the spend so far, without the planned
\* amount, to the cap.
ExceedsMarketCap_SpentOnly(session, trade, config, planned) ==
    /\ config.maxTotalPerMarket # {}
    /\ trade.side = "BUY"
    /\ session.active
    /\ session.spentByMarket[trade.marketSlug] > Value(config.maxTotalPerMarket)

\* The per-market gate of handleTrade.
ExceedsMarketCap(session, trade, config, planned) ==
    /\ config.maxTotalPerMarket # {}
    /\ trade.side = "BUY"
    /\ session.active
    /\ session.spentByMarket[trade.marketSlug] + planned > Value(config.maxTotalPerMarket)

\* The spend tracking of handleTrade: cumulative and per-market.
TrackSpending(session, trade, copyUsdcAmount) ==
    [session EXCEPT
       !.cumulativeSpent = @ + copyUsdcAmount,
       !.spentByMarket[trade.marketSlug] =
           IF trade.side = "BUY" THEN @ + copyUsdcAmount ELSE @]

\* handleTrade from the execution result to the next await: the total
\* limit check and the spend tracking.
AfterExecution(session, trade, config, result) ==
    IF Truthy(config.totalLimit) /\ session.active
    THEN IF session.cumulativeSpent + result.copyUsdcAmount > Value(config.totalLimit)
         THEN [session |-> session, verdict |-> "limit"]
         ELSE [session |-> TrackSpending(session, trade, result.copyUsdcAmount),
               verdict |-> "tracked"]
    ELSE [session |-> session, verdict |-> "untracked"]

\* A dry run that reports the scaled notional without the cap.
DryRunResult_Uncapped(trade, config) ==
    [kind |-> "dryRun", success |-> TRUE,
     copyUsdcAmount |-> trade.size * trade.price * config.sizeScale]

\* The dry-run branch of handleTrade: a synthetic successful result.
DryRunResult(trade, config) ==
    [kind |-> "dryRun", success |-> TRUE,
     copyUsdcAmount |-> PlannedCopyUsdcAmount(trade, config)]

\* After the total limit check: the trade message, unless the limit
\* notification is awaited first.
TradeNotice(verdict) == IF verdict = "limit" THEN "none" ELSE "trade"

\* The handlers left suspended after the total limit check.
Continue(bag, h, verdict, result) ==
    IF verdict = "limit"
    THEN Suspend(Resume(bag, h), [h EXCEPT !.pc = "notifyLimit", !.hit = {},
                                            !.result = result])
    ELSE Resume(bag, h)

\* A lookup that asks the Gamma API whatever the cache holds.
MarketTags_Refetch(h, fetchOk) ==
    IF fetchOk THEN GammaTags(h.trade.marketSlug) ELSE {}

\* The tags getMarketInfo answers with: the entry cached when it was
\* called, else what the fetch gave (none when it failed or found nothing).
MarketTags(h, fetchOk) ==
    IF h.hit # {} THEN Value(h.hit)
    ELSE IF fetchOk THEN GammaTags(h.trade.marketSlug) ELSE {}

\* A pipeline that hands every event that passed the gates to the executor.
OnMarketInfo_AlwaysLive(session, trade, config, tags) ==
    IF config.categories # {} /\ ~HasMatchingCategory(config, tags)
    THEN "skipCategory"
    ELSE IF ExceedsMarketCap(session, trade, config,
                             PlannedCopyUsdcAmount(trade, config))
    THEN "skipCap"
    ELSE "execute"

\* handleTrade between the market lookup and the execution: the category
\* gate, then the per-market gate, then dry run or live execution.
OnMarketInfo(session, trade, config, tags) ==
    IF config.categories # {} /\ ~HasMatchingCategory(config, tags)
    THEN "skipCategory"
    ELSE IF ExceedsMarketCap(session, trade, config,
                             PlannedCopyUsdcAmount(trade, config))
    THEN "skipCap"
    ELSE IF config.dryRun THEN "dryRun" ELSE "execute"

\* getMarketInfo returns; handleTrade runs to its next await.
MarketInfoReturn(h, fetchOk) ==
    /\ BagIn(h, handlers)
    /\ h.pc = "marketInfo"
    /\ LET tags == MarketTags(h, fetchOk)
           verdict == OnMarketInfo(activeSession, h.trade, h.config, tags)
           result == DryRunResult(h.trade, h.config)
           after == AfterExecution(activeSession, h.trade, h.config, result)
       IN  /\ cache' = IF h.hit # {} THEN cache
                       ELSE [cache EXCEPT ![h.trade.marketSlug] = {tags}]
           /\ CASE verdict = "skipCategory" ->
                     /\ activeSession' = IncrementSkipped(activeSession)
                     /\ handlers' = Resume(handlers, h)
                     /\ notice' = "none"
                     /\ UNCHANGED ledger
                [] verdict = "skipCap" ->
                     /\ activeSession' = IncrementSkipped(activeSession)
                     /\ handlers' = Resume(handlers, h)
                     /\ notice' = "cap"
                     /\ UNCHANGED ledger
                [] verdict = "dryRun" ->
                     /\ activeSession' = after.session
                     /\ handlers' = Continue(handlers, h, after.verdict, result)
                     /\ notice' = TradeNotice(after.verdict)
                     /\ ledger' = Carry(ledger, activeSession, h.sub, h.trade,
                                        result, after.verdict # "limit")
                [] verdict = "execute" ->
                     /\ UNCHANGED activeSession
                     /\ handlers' = Suspend(Resume(handlers, h),
                                            [h EXCEPT !.pc = "execute", !.hit = {}])
                     /\ notice' = "none"
                     /\ UNCHANGED ledger
    /\ UNCHANGED <<seenTransactions, liveSubs, starting, accepted, started,
                   feed, recentIds, order, resolver>>

\* What the metadata resolver and the exchange can answer.
ExecOutcomes == {"threw", "rejected", "accepted"}

\* An executor whose catch block reports the planned amount.
Execute_ThrowKeepsAmount(trade, config, outcome) ==
    LET copyUsdcAmount == PlannedCopyUsdcAmount(trade, config)
    IN  IF copyUsdcAmount < config.minTradeSize
        THEN [kind |-> "tooSmall", success |-> FALSE, copyUsdcAmount |-> copyUsdcAmount]
        ELSE [kind |-> outcome, success |-> (outcome = "accepted"),
              copyUsdcAmount |-> copyUsdcAmount]

\* ClobExecutor.execute: sizing, the min-size check, then the outcome of
\* resolve and placeOrder.
Execute(trade, config, outcome) ==
    LET copyUsdcAmount == PlannedCopyUsdcAmount(trade, config)
    IN  IF copyUsdcAmount < config.minTradeSize
        THEN [kind |-> "tooSmall", success |-> FALSE, copyUsdcAmount |-> copyUsdcAmount]
        ELSE IF outcome = "threw"
        THEN [kind |-> "threw", success |-> FALSE, copyUsdcAmount |-> 0]
        ELSE [kind |-> outcome, success |-> (outcome = "accepted"),
              copyUsdcAmount |-> copyUsdcAmount]

\* clobExecutor.execute returns; handleTrade runs to its next await.
ExecuteReturn(h, outcome) ==
    /\ BagIn(h, handlers)
    /\ h.pc = "execute"
    /\ LET result == Execute(h.trade, h.config, outcome)
           after == AfterExecution(activeSession, h.trade, h.config, result)
       IN  /\ activeSession' = after.session
           /\ handlers' = Continue(handlers, h, after.verdict, result)
           /\ notice' = TradeNotice(after.verdict)
           /\ ledger' = Carry(ledger, activeSession, h.sub, h.trade, result,
                              result.success)
    /\ UNCHANGED <<seenTransactions, cache, liveSubs, starting, accepted, started,
                   feed, recentIds, order, resolver>>

\* The limit-reached notification returns.  Building the message reads
\* this.activeSession; a failure there or in the delivery skips stop().
NotifyLimit(h, sendOk, unsubThrows) ==
    /\ BagIn(h, handlers)
    /\ h.pc = "notifyLimit"
    /\ handlers' = Resume(handlers, h)
    /\ IF sendOk /\ activeSession.active
       THEN LET st == StopEffect(activeSession, seenTransactions, liveSubs, unsubThrows)
            IN  /\ activeSession' = st.session
                /\ seenTransactions' = st.seen
                /\ liveSubs' = st.subs
                /\ feed' = Ended(feed, liveSubs, st.subs)
                /\ recentIds' = <<>>
                /\ notice' = "limit"
       ELSE /\ UNCHANGED <<activeSession, seenTransactions, liveSubs, feed,
                           recentIds>>
            /\ notice' = "none"
    /\ UNCHANGED <<cache, starting, accepted, started, order, resolver, ledger>>

\* A feed error handler that gives the session up.
FeedError_Stops(sub) ==
    /\ sub \in liveSubs
    /\ notice' = "error"
    /\ activeSession' = NoSession
    /\ liveSubs' = Unsubscribe(activeSession, liveSubs)
    /\ UNCHANGED <<seenTransactions, cache, starting, handlers, accepted,
                   started, feed, recentIds, order, resolver, ledger>>

\* The feed reports an error to the onError callback of a live
\* subscription: handleError tries to send the error message.
FeedError(sub) ==
    /\ sub \in liveSubs
    /\ notice' = "error"
    /\ UNCHANGED <<activeSession, seenTransactions, cache, liveSubs, starting,
                   handlers, accepted, started, feed, recentIds, order, resolver, ledger>>

\* Whether unsubscribe throws, where stop() has a subscription to end.
UnsubOutcomes == IF activeSession.active THEN BOOLEAN ELSE {FALSE}

\* Whether the Gamma fetch of a handler's market gives an event.
FetchOutcomes(h) == {GammaFinds(h.trade.marketSlug)}

\* ------------------------------------------------------- order computation
\*
\* Units of this part.  Prices and tick sizes are in 1/10000 dollar, leader
\* sizes in shares, sizeScale in tenths, so a USDC amount is in 1/100000
\* dollar; a share size handed to the exchange is in 1/100 share when it
\* was rounded, and maxSlippage is in percent.  The arithmetic is exact;
\* the rounding error of a double only shows where Math.round meets a
\* quotient that lies halfway, and there both neighbours are possible.

\* 0.01 and 0.99, the price range of clobExecutor.ts:87.
MinPrice == 100
MaxPrice == 9900

\* One cent, as a USDC amount.
Cent == 1000

OrderPrices == {50, 3000, 6200, 6500, 6816, 9950}
OrderSizes == {3, 100}
OrderTypes == {"FOK", "FAK", "GTC"}
TickSizes == {"0.1", "0.01", "0.001", "0.0001"}
Slippages == {0, 3, 150}

\* The events and configurations handed to ClobExecutor.execute: sizeScale
\* 0.1 and 1, at most 10 dollars per trade, at least 10 cents.
OrderTrades ==
    [side : Sides, price : OrderPrices, size : OrderSizes, marketSlug : {"m1"}]

OrderConfigs ==
    [sizeScale : {1, 10}, maxSizePerTrade : {1000000}, minTradeSize : {10000},
     maxSlippage : Slippages, orderType : OrderTypes]

\* What the resolver answers for the token of the event.
Metadata == [tickSize : TickSizes, negRisk : BOOLEAN]

NoParams == [orderType |-> "none"]

NoArgs == [kind |-> "none"]

\* parseFloat(metadata.tickSize)
ParseFloat(tickSize) ==
    CASE tickSize = "0.1" -> 1000
      [] tickSize = "0.01" -> 100
      [] tickSize = "0.001" -> 10
      [] tickSize = "0.0001" -> 1

\* Math.round(num / den), den > 0: the integers nearest to the quotient.
Round(num, den) ==
    LET q == num \div den
    IN  {k \in {q, q + 1} :
            /\ 2 * (k * den) - 2 * num <= den
            /\ 2 * num - 2 * (k * den) <= den}

\* trade.price * (1 + maxSlippage) for a BUY, trade.price * (1 - maxSlippage)
\* for a SELL, in 1/1000000 dollar.
SlippagePrice(trade, config) ==
    IF trade.side = "BUY"
    THEN trade.price * (100 + config.maxSlippage)
    ELSE trade.price * (100 - config.maxSlippage)

\* Math.max(0.01, Math.min(0.99, price))
Clamp(price) ==
    IF price > MaxPrice THEN MaxPrice
    ELSE IF price < MinPrice THEN MinPrice
    ELSE price

\* A tick rounding that always rounds down.
AdjustedPrices_Floor(trade, config, tickSize) ==
    LET tick == ParseFloat(tickSize)
    IN  {Clamp((SlippagePrice(trade, config) \div (100 * tick)) * tick)}

\* The price execute submits: slippage, rounding to the tick, clamping.
AdjustedPrices(trade, config, tickSize) ==
    LET tick == ParseFloat(tickSize)
    IN  {Clamp(k * tick) : k \in Round(SlippagePrice(trade, config), 100 * tick)}

\* Math.round((copyUsdcAmount / trade.price) * 100) / 100, in 1/100 share.
RoundedSizes(trade, copyUsdcAmount) == Round(10 * copyUsdcAmount, trade.price)

IsFokFakBuy(trade, config) ==
    config.orderType \in {"FOK", "FAK"} /\ trade.side = "BUY"

\* The PlaceOrderParams execute builds.
OrderParams(trade, config, metadata, copyUsdcAmount, price, size) ==
    [side |-> trade.side, price |-> price, size |-> size,
     tickSize |-> metadata.tickSize, negRisk |-> metadata.negRisk,
     orderType |-> config.orderType,
     usdcAmount |-> IF IsFokFakBuy(trade, config) THEN {copyUsdcAmount} ELSE {}]

\* mapOrderType
MapOrderType(type) ==
    CASE type = "FOK" -> "FOK"
      [] type = "FAK" -> "FAK"
      [] type = "GTC" -> "GTC"
      [] OTHER -> "FOK"

\* A placeOrder that sizes every market order in shares.
OrderArgs_ShareBased(params) ==
    IF params.orderType \in {"FOK", "FAK"}
    THEN [kind |-> "market", price |-> params.price, amount |-> params.size,
          side |-> params.side, tickSize |-> params.tickSize,
          negRisk |-> params.negRisk,
          postedAs |-> MapOrderType(params.orderType)]
    ELSE [kind |-> "limit", price |-> params.price, size |-> params.size,
          side |-> params.side, expiration |-> 0,
          postedAs |-> MapOrderType(params.orderType)]

\* The order placeOrder has the client build, and the type it posts it as.
OrderArgs(params) ==
    IF params.orderType \in {"FOK", "FAK"}
    THEN [kind |-> "market", price |-> params.price,
          amount |-> IF params.side = "BUY" /\ params.usdcAmount # {}
                     THEN Value(params.usdcAmount)
                     ELSE params.size,
          side |-> params.side, tickSize |-> params.tickSize,
          negRisk |-> params.negRisk,
          postedAs |-> MapOrderType(params.orderType)]
    ELSE [kind |-> "limit", price |-> params.price, size |-> params.size,
          side |-> params.side, expiration |-> 0,
          postedAs |-> MapOrderType(params.orderType)]

\* What postOrder can answer: an error (a string, or an object such as
\* the body of an HTTP error), a success flag, an order id, a message of
\* the exchange, the hashes of the settlement transactions.  A field that
\* is missing is written "" or <<>>.
ErrorValues ==
    {[type |-> "none", text |-> ""],
     [type |-> "string", text |-> "HTTP 400"],
     [type |-> "object", text |-> "{status:400}"]}

PostResponses ==
    [error : ErrorValues, success : BOOLEAN, orderID : {"", "0xorder"},
     errorMsg : {"", "not enough balance"},
     transactionsHashes : {<<>>, <<"0xtx1", "0xtx2">>}]

\* postOrder returns a response or throws an exception with a message.
PostOutcomes ==
    [threw : {FALSE}, response : PostResponses, message : {""}]
    \cup [threw : {TRUE},
          response : {[error |-> [type |-> "none", text |-> ""], success |-> FALSE,
                       orderID |-> "", errorMsg |-> "",
                       transactionsHashes |-> <<>>]},
          message : {"", "socket hang up"}]

NoResponse == [success |-> FALSE, kind |-> "none"]

NoPosted == [threw |-> FALSE, kind |-> "none"]

\* The first element of an array, if it has one.
First(seq) == IF Len(seq) > 0 THEN {seq[1]} ELSE {}

\* The catch block of placeOrder.
OrderFailed(params, message) ==
    [success |-> FALSE, kind |-> "exception", orderId |-> {},
     transactionHash |-> {},
     error |-> IF message # "" THEN message ELSE "Unknown error",
     orderType |-> params.orderType]

\* A classification that takes the success flag of the response at its
\* word.
OrderResponse_TrustsSuccess(params, response) ==
    IF response.error.type # "none"
    THEN [success |-> FALSE, kind |-> "error", orderId |-> {},
          transactionHash |-> {}, error |-> response.error.text,
          orderType |-> params.orderType]
    ELSE IF ~response.success
    THEN [success |-> FALSE, kind |-> "rejected", orderId |-> {},
          transactionHash |-> {},
          error |-> IF response.errorMsg # "" THEN response.errorMsg
                    ELSE "Unknown error - no orderID returned",
          orderType |-> params.orderType]
    ELSE [success |-> TRUE, kind |-> "placed",
          orderId |-> IF response.orderID = "" THEN {} ELSE {response.orderID},
          transactionHash |-> First(response.transactionsHashes),
          error |-> "", orderType |-> params.orderType]

\* placeOrder after postOrder returned: the classification of the response.
OrderResponse(params, response) ==
    IF response.error.type # "none"
    THEN [success |-> FALSE, kind |-> "error", orderId |-> {},
          transactionHash |-> {}, error |-> response.error.text,
          orderType |-> params.orderType]
    ELSE IF ~response.success \/ response.orderID = ""
    THEN [success |-> FALSE, kind |-> "rejected", orderId |-> {},
          transactionHash |-> {},
          error |-> IF response.errorMsg # "" THEN response.errorMsg
                    ELSE "Unknown error - no orderID returned",
          orderType |-> params.orderType]
    ELSE [success |-> TRUE, kind |-> "placed", orderId |-> {response.orderID},
          transactionHash |-> First(response.transactionsHashes),
          error |-> "", orderType |-> params.orderType]

\* execute is called for an event under a configuration.
OrderInput(trade, config) ==
    [pc |-> "execute", trade |-> trade, config |-> config, copyUsdcAmount |-> 0,
     params |-> NoParams, args |-> NoArgs, response |-> NoResponse,
     posted |-> NoPosted]

\* execute up to the resolver call: sizing and the min-size check.
ExecuteSizing ==
    /\ order.pc = "execute"
    /\ LET copyUsdcAmount == PlannedCopyUsdcAmount(order.trade, order.config)
       IN  order' = [order EXCEPT
                       !.copyUsdcAmount = copyUsdcAmount,
                       !.pc = IF copyUsdcAmount < order.config.minTradeSize
                              THEN "tooSmall" ELSE "resolve"]
    /\ UNCHANGED <<activeSession, seenTransactions, cache, liveSubs, starting,
                   handlers, accepted, started, notice, feed, recentIds,
                   resolver, ledger>>

\* The resolver returns metadata, or throws; execute computes size and
\* price and calls placeOrder.
ExecuteResolve(metadata, resolved) ==
    /\ order.pc = "resolve"
    /\ IF resolved
       THEN \E price \in AdjustedPrices(order.trade, order.config, metadata.tickSize),
               size \in RoundedSizes(order.trade, order.copyUsdcAmount) :
              order' = [order EXCEPT
                          !.pc = "placeOrder",
                          !.params = OrderParams(order.trade, order.config,
                                                 metadata, order.copyUsdcAmount,
                                                 price, size)]
       ELSE order' = [order EXCEPT !.pc = "threw", !.copyUsdcAmount = 0]
    /\ UNCHANGED <<activeSession, seenTransactions, cache, liveSubs, starting,
                   handlers, accepted, started, notice, feed, recentIds,
                   resolver, ledger>>

\* placeOrder up to posting: the client builds the order, or throws into
\* the catch block of placeOrder.
PlaceOrder(built) ==
    /\ order.pc = "placeOrder"
    /\ order' = IF built
                THEN [order EXCEPT !.pc = "postOrder",
                                   !.args = OrderArgs(order.params)]
                ELSE [order EXCEPT !.pc = "returned",
                                   !.response = OrderFailed(order.params, "signing failed")]
    /\ UNCHANGED <<activeSession, seenTransactions, cache, liveSubs, starting,
                   handlers, accepted, started, notice, feed, recentIds,
                   resolver, ledger>>

\* postOrder returns or throws; placeOrder classifies the outcome and
\* execute returns it with the amount of the order.
PostOrderReturn(outcome) ==
    /\ order.pc = "postOrder"
    /\ order' = [order EXCEPT
                   !.pc = "returned",
                   !.posted = [threw |-> outcome.threw, kind |-> "posted",
                               response |-> outcome.response,
                               message |-> outcome.message],
                   !.response = IF outcome.threw
                                THEN OrderFailed(order.params, outcome.message)
                                ELSE OrderResponse(order.params, outcome.response)]
    /\ UNCHANGED <<activeSession, seenTransactions, cache, liveSubs, starting,
                   handlers, accepted, started, notice, feed, recentIds,
                   resolver, ledger>>

Next ==
    \/ \E c \in Configs, t \in UnsubOutcomes : StartCall(c, t)
    \/ \E p \in starting, t \in BOOLEAN : StartSubscribe(p, t)
    \/ \E t \in UnsubOutcomes : StopCall(t)
    \/ \E s \in liveSubs, tr \in Trades : Deliver(s, tr)
    \/ \E h \in BagToSet(handlers) : \E ok \in FetchOutcomes(h) : MarketInfoReturn(h, ok)
    \/ \E h \in BagToSet(handlers), o \in ExecOutcomes : ExecuteReturn(h, o)
    \/ \E h \in BagToSet(handlers), ok \in BOOLEAN, t \in UnsubOutcomes :
          NotifyLimit(h, ok, t)

Spec == Init /\ [][Next]_vars

\* The same program under a feed that also reports errors.
NextError ==
    \/ Next
    \/ \E s \in liveSubs : FeedError(s)

SpecError == Init /\ [][NextError]_vars

\* The same program under a feed that may deliver late.
NextLate ==
    \/ Next
    \/ \E s \in feed.ended, tr \in Trades : DeliverLate(s, tr)

SpecLate == InitLate /\ [][NextLate]_vars

\* The same program under a feed whose events may lack an identifier.
NextBlank ==
    \/ Next
    \/ \E s \in liveSubs, tr \in BlankTrades : DeliverBlank(s, tr)

SpecBlank == Init /\ [][NextBlank]_vars

\* The same program under an operator whose start() calls may overlap.
NextOverlap ==
    \/ Next
    \/ \E c \in Configs, t \in UnsubOutcomes : StartCallOverlapping(c, t)

SpecOverlap == Init /\ [][NextOverlap]_vars

\* The feed invokes the callback while no handleTrade is in flight.
DeliverSerial(sub, trade) == handlers = EmptyBag /\ Deliver(sub, trade)

\* The same program where the events are handled one at a time, with a
\* record kept of the copies carried out.
NextSerial ==
    \/ \E c \in Configs, t \in UnsubOutcomes : StartCall(c, t)
    \/ \E p \in starting, t \in BOOLEAN : StartSubscribe(p, t)
    \/ \E t \in UnsubOutcomes : StopCall(t)
    \/ \E s \in liveSubs, tr \in Trades : DeliverSerial(s, tr)
    \/ \E h \in BagToSet(handlers) : \E ok \in FetchOutcomes(h) : MarketInfoReturn(h, ok)
    \/ \E h \in BagToSet(handlers), o \in ExecOutcomes : ExecuteReturn(h, o)
    \/ \E h \in BagToSet(handlers), ok \in BOOLEAN, t \in UnsubOutcomes :
          NotifyLimit(h, ok, t)

SpecSerial == InitLedger /\ [][NextSerial]_vars

\* Live sessions that have a total limit and a cap per market: a limit out
\* of reach of the events of one behaviour, and one within reach.
LimitedConfigs ==
    { Config(FALSE, {}, {2000}, {}, {500}),
      Config(FALSE, {}, {600}, {}, {500}) }

\* The program under these configurations, events handled as they come,
\* with a record kept of the copies carried out.
NextLimited ==
    \/ \E c \in LimitedConfigs, t \in UnsubOutcomes : StartCall(c, t)
    \/ \E p \in starting, t \in BOOLEAN : StartSubscribe(p, t)
    \/ \E t \in UnsubOutcomes : StopCall(t)
    \/ \E s \in liveSubs, tr \in Trades : Deliver(s, tr)
    \/ \E h \in BagToSet(handlers) : \E ok \in FetchOutcomes(h) : MarketInfoReturn(h, ok)
    \/ \E h \in BagToSet(handlers), o \in ExecOutcomes : ExecuteReturn(h, o)
    \/ \E h \in BagToSet(handlers), ok \in BOOLEAN, t \in UnsubOutcomes :
          NotifyLimit(h, ok, t)

SpecLimited == InitLedger /\ [][NextLimited]_vars

\* Whether the Gamma request of a handler's market gives an event, when
\* the request for an event the API knows may also fail.
FetchResults(h) == IF GammaFinds(h.trade.marketSlug) THEN BOOLEAN ELSE {FALSE}

\* A live session with a category gate and a total limit.
GatedConfigs == { Config(FALSE, {"sports"}, {300}, {50}, {}) }

\* The program under a Gamma API whose requests may fail.
NextFetch ==
    \/ \E c \in GatedConfigs, t \in UnsubOutcomes : StartCall(c, t)
    \/ \E p \in starting, t \in BOOLEAN : StartSubscribe(p, t)
    \/ \E t \in UnsubOutcomes : StopCall(t)
    \/ \E s \in liveSubs, tr \in Trades : Deliver(s, tr)
    \/ \E h \in BagToSet(handlers) : \E ok \in FetchResults(h) : MarketInfoReturn(h, ok)
    \/ \E h \in BagToSet(handlers), o \in ExecOutcomes : ExecuteReturn(h, o)
    \/ \E h \in BagToSet(handlers), ok \in BOOLEAN, t \in UnsubOutcomes :
          NotifyLimit(h, ok, t)

SpecFetch == Init /\ [][NextFetch]_vars

\* ------------------------------------------------------- metadata resolver
\*
\* MarketMetadataResolver for one market slug.  Time is counted in steps of
\* the clock.

\* How far the clock runs, and how many resolve calls are made.
MaxTime == 4
MaxResolves == 3
\* this.cacheLifetime, scaled down from the 5 minutes of clobExecutor.ts:396.
CacheLifetime == 2

\* The outcomes callers ask for and the outcomes of the market's tokens, as
\* each spells them.
Outcomes == {"Yes", "NO", "Maybe"}
TokenOutcomes == {"Yes", "No"}

\* String.prototype.toUpperCase on the outcomes of the model.
ToUpperCase(o) ==
    CASE o \in {"Yes", "YES"} -> "YES"
      [] o \in {"No", "NO"} -> "NO"
      [] o = "Maybe" -> "MAYBE"
      [] OTHER -> o

\* A cache whose entries never expire.
ResolverFresh_NeverExpires(entry, now) == TRUE

\* Date.now() - cached.timestamp < this.cacheLifetime
ResolverFresh(entry, now) == now - entry.timestamp < CacheLifetime

\* The cache entry resolve answers from without a remote call, if any.
ResolverHit(res, outcome) ==
    {e \in res.cache :
        ResolverFresh(e, res.now) /\ ToUpperCase(outcome) \in e.outcomes}

\* resolve(marketSlug, outcome) up to its return or its first remote call.
ResolveCall(outcome) ==
    /\ resolver.calls < MaxResolves
    /\ LET hit == ResolverHit(resolver, outcome)
       IN  resolver' =
             IF hit # {}
             THEN [resolver EXCEPT
                     !.calls = @ + 1,
                     !.returned = [kind |-> "hit",
                                   age |-> resolver.now - Value(hit).timestamp]]
             ELSE [resolver EXCEPT
                     !.calls = @ + 1,
                     !.remote = @ + 1,
                     !.pending = @ \cup {[id |-> resolver.calls + 1,
                                          outcome |-> outcome]},
                     !.returned = [kind |-> "none", age |-> 0]]
    /\ UNCHANGED <<activeSession, seenTransactions, cache, liveSubs, starting,
                   handlers, accepted, started, notice, feed, recentIds, order, ledger>>

\* The remote calls of a resolve have returned: the market was not found
\* (resolve throws), or the entry of the market is replaced and the
\* metadata of the outcome returned, if the market has that outcome.
FetchReturn(call, found) ==
    /\ call \in resolver.pending
    /\ LET entry == [timestamp |-> resolver.now,
                     outcomes |-> {ToUpperCase(o) : o \in TokenOutcomes}]
       IN  resolver' =
             IF ~found
             THEN [resolver EXCEPT
                     !.pending = @ \ {call},
                     !.returned = [kind |-> "threw", age |-> 0]]
             ELSE [resolver EXCEPT
                     !.pending = @ \ {call},
                     !.cache = {entry},
                     !.returned =
                        IF ToUpperCase(call.outcome) \in entry.outcomes
                        THEN [kind |-> "fetched", age |-> 0]
                        ELSE [kind |-> "threw", age |-> 0]]
    /\ UNCHANGED <<activeSession, seenTransactions, cache, liveSubs, starting,
                   handlers, accepted, started, notice, feed, recentIds, order, ledger>>

\* Time passes.
Tick ==
    /\ resolver.now < MaxTime
    /\ resolver' = [resolver EXCEPT !.now = @ + 1,
                                    !.returned = [kind |-> "none", age |-> 0]]
    /\ UNCHANGED <<activeSession, seenTransactions, cache, liveSubs, starting,
                   handlers, accepted, started, notice, feed, recentIds, order, ledger>>

\* ClobExecutor.execute on its own, for every event and configuration of
\* the order computation domains.
InitOrder ==
    /\ Constructed
    /\ feed = [late |-> FALSE, ended |-> {}]
    /\ order \in {OrderInput(t, c) : t \in OrderTrades, c \in OrderConfigs}
    /\ resolver = NewResolver
    /\ ledger = NoLedger

NextOrder ==
    \/ ExecuteSizing
    \/ \E m \in Metadata, ok \in BOOLEAN : ExecuteResolve(m, ok)
    \/ \E built \in BOOLEAN : PlaceOrder(built)
    \/ \E o \in PostOutcomes : PostOrderReturn(o)

SpecOrder == InitOrder /\ [][NextOrder]_vars

\* MarketMetadataResolver on its own.
NextResolver ==
    \/ \E o \in Outcomes : ResolveCall(o)
    \/ \E c \in resolver.pending, found \in BOOLEAN : FetchReturn(c, found)
    \/ Tick

SpecResolver == Init /\ [][NextResolver]_vars

\* ------------------------------------------------------- properties

\* The handler whose code runs in this step.
Stepped(h) == BagIn(h, handlers) /\ CopiesIn(h, handlers') < CopiesIn(h, handlers)

\* The spend counters of the session are the same after the step.
SpendKept ==
    (activeSession.active /\ activeSession'.active) =>
        /\ activeSession'.cumulativeSpent = activeSession.cumulativeSpent
        /\ activeSession'.spentByMarket = activeSession.spentByMarket

\* The step found the total limit exceeded: the handler h now waits for the
\* limit notification, after which it stops the session.
Breached(h) ==
    \E x \in BagToSet(handlers') :
        /\ x.pc = "notifyLimit"
        /\ x.sub = h.sub
        /\ x.trade = h.trade
        /\ x.config = h.config
        /\ CopiesIn(x, handlers') > CopiesIn(x, handlers)

\* The suspended handleTrade invocations started by the callback of
\* subscription i.
InFlight(i) == {h \in BagToSet(handlers) : h.sub = i}

\* The session whose callback started h has been stopped.
Stale(h) == ~(activeSession.active /\ activeSession.subscription = h.sub)

\* The identifiers in a sequence.
Range(ids) == {ids[i] : i \in 1..Len(ids)}

\* C1: with lifecycle calls made one after the other, at most one feed
\* subscription is live at any time, and while a start() waits to subscribe
\* (after it has stopped the session it found) none is live.
C1_SingleSubscription ==
    /\ Cardinality(liveSubs) <= 1
    /\ starting # {} => liveSubs = {}

\* A start() found a session active, and its subscription is now the live one.
C1_Witness ==
    \E s \in liveSubs :
        /\ s.replaced
        /\ liveSubs = {s}
        /\ activeSession.active
        /\ activeSession.subscription = s.id

\* C2: whenever a session is Active with totalLimit configured, its
\* cumulativeSpent is at most its totalLimit.
C2_SpentWithinLimit ==
    (activeSession.active /\ Truthy(activeSession.config.totalLimit))
        => activeSession.cumulativeSpent <= Value(activeSession.config.totalLimit)

\* C3: when the limit notification of a BUY that was carried out and took
\* the spend above totalLimit returns, delivered or not, the handling of
\* the event ends with the session Idle.
C3_IdleAfterLimit ==
    [][\A h \in BagToSet(handlers), ok \in BOOLEAN, t \in BOOLEAN :
          (/\ NotifyLimit(h, ok, t)
           /\ h.trade.side = "BUY"
           /\ h.result.success)
          => ~activeSession'.active]_vars

\* C4: an event of the target whose identifier is among the last KeepLast
\* accepted ones is dropped by the callback: no handler starts, no
\* notification is sent, and session and dedupe set stay as they are.
C4_DuplicateDropped ==
    \A s \in liveSubs, tr \in Trades :
        (/\ ToLowerCase(tr.address) = ToLowerCase(s.config.targetAddress)
         /\ tr.transactionHash \in Range(recentIds))
        => OnTradeEffect(s, tr) =
               [session |-> activeSession, seen |-> seenTransactions,
                handlers |-> handlers, notice |-> "none"]

\* Two events were accepted, the first identifier has left the window, and
\* the feed can deliver the second one again.
C4_Witness ==
    /\ accepted = MaxEvents
    /\ recentIds # <<>>
    /\ \E s \in liveSubs, tr \in Trades :
          /\ tr.address = "0xAbC"
          /\ tr.transactionHash \in Range(recentIds)
          /\ tr.transactionHash \in FeedHashes(seenTransactions)

\* C5: with maxTotalPerMarket configured, a BUY that gets past the category
\* gate while spentByMarket[market] + planned > maxTotalPerMarket ends
\* there: its handler is gone (no execution, no dry-run result), the
\* session differs only by skippedCount + 1, and the market-cap notice is
\* sent; a SELL never gets the market-cap skip.
C5_MarketCapSkip ==
    [][\A h \in BagToSet(handlers) : \A ok \in FetchOutcomes(h) :
          MarketInfoReturn(h, ok) =>
            /\ (/\ h.config.maxTotalPerMarket # {}
                /\ h.trade.side = "BUY"
                /\ activeSession.active
                /\ h.config.categories # {}
                     => HasMatchingCategory(h.config, MarketTags(h, ok))
                /\ activeSession.spentByMarket[h.trade.marketSlug]
                     + PlannedCopyUsdcAmount(h.trade, h.config)
                       > Value(h.config.maxTotalPerMarket))
               => /\ handlers' = Resume(handlers, h)
                  /\ activeSession' =
                       [activeSession EXCEPT !.skippedCount = @ + 1]
                  /\ notice' = "cap"
            /\ h.trade.side = "SELL" => notice' # "cap"]_vars

\* A BUY was skipped at the market cap after spend in some market.
C5_Witness ==
    /\ notice = "cap"
    /\ activeSession.active
    /\ activeSession.skippedCount >= 1
    /\ \E m \in Markets : activeSession.spentByMarket[m] > 0

\* C6: a step of the handling of a SELL event leaves cumulativeSpent and
\* spentByMarket as they are and does not find the total limit exceeded.
C6_SellNeverCounts ==
    [][\A h \in BagToSet(handlers) :
          (Stepped(h) /\ h.trade.side = "SELL")
              => (SpendKept /\ ~Breached(h))]_vars

\* C7: in live mode, when execute returns success = false because the
\* exchange rejected the order, the spend counters are unchanged and the
\* total limit is not found exceeded, so the session stays Active.
C7_FailedOrderNotCounted ==
    [][\A h \in BagToSet(handlers) :
          (/\ ExecuteReturn(h, "rejected")
           /\ Execute(h.trade, h.config, "rejected").kind = "rejected"
           /\ ~Execute(h.trade, h.config, "rejected").success)
          => (SpendKept /\ ~Breached(h))]_vars

C9_TooSmallSkipped ==
    [][\A h \in BagToSet(handlers) :
          LET reached ==
                \/ \E o \in ExecOutcomes : ExecuteReturn(h, o)
                \/ \E ok \in FetchOutcomes(h) :
                      /\ MarketInfoReturn(h, ok)
                      /\ OnMarketInfo(activeSession, h.trade, h.config,
                                      MarketTags(h, ok)) = "dryRun"
          IN  (/\ reached
               /\ activeSession.active
               /\ PlannedCopyUsdcAmount(h.trade, h.config) < h.config.minTradeSize)
              => /\ handlers' = Resume(handlers, h)
                 /\ activeSession' =
                      [activeSession EXCEPT !.skippedCount = @ + 1]]_vars

\* C10: with maxOdds configured, an accepted BUY priced above maxOdds ends
\* in the callback: no handler reaches the market lookup, the cache and
\* the spend counters are untouched, skippedCount grows by 1; any other
\* accepted event starts its handler and leaves the session as it is.
C10_MaxOddsGate ==
    [][\A s \in liveSubs, tr \in Trades :
          (accepted' = accepted + 1 /\ Deliver(s, tr)) =>
            IF /\ s.config.maxOdds # {}
               /\ tr.side = "BUY"
               /\ tr.price > Value(s.config.maxOdds)
            THEN /\ handlers' = handlers
                 /\ cache' = cache
                 /\ activeSession.active
                 /\ activeSession' =
                      [activeSession EXCEPT !.skippedCount = @ + 1]
                 /\ notice' = "odds"
            ELSE /\ \E h \in BagToSet(handlers') :
                       /\ h.pc = "marketInfo"
                       /\ h.trade = TradeView(tr)
                       /\ CopiesIn(h, handlers') = CopiesIn(h, handlers) + 1
                 /\ activeSession' = activeSession
                 /\ notice' # "odds"]_vars

\* A BUY above maxOdds was skipped with nothing looked up and nothing spent.
C10_Witness ==
    /\ notice = "odds"
    /\ activeSession.active
    /\ activeSession.skippedCount >= 1
    /\ activeSession.cumulativeSpent = 0
    /\ handlers = EmptyBag
    /\ \A m \in Markets : cache[m] = {}

\* C11: when the market lookup of an event returns and an allow-list is
\* configured with none of the market's lower-cased tags in it, the handling
\* ends there: no execution, no dry-run result, no notification, and the
\* session differs only by skippedCount + 1.  With a tag in the allow-list,
\* or with no allow-list, the handling does not end as a category skip.
C11_CategoryGate ==
    [][\A h \in BagToSet(handlers) : \A ok \in FetchOutcomes(h) :
          MarketInfoReturn(h, ok) =>
            LET listed == {t \in MarketTags(h, ok) :
                              ToLowerCase(t) \in h.config.categories}
                skipped == /\ handlers' = Resume(handlers, h)
                           /\ notice' = "none"
            IN  IF h.config.categories # {} /\ listed = {}
                THEN /\ skipped
                     /\ activeSession.active =>
                          activeSession' =
                            [activeSession EXCEPT !.skippedCount = @ + 1]
                ELSE ~skipped]_vars

\* An event of a market without a listed tag was looked up and skipped:
\* nothing spent, nothing in flight, one skip counted.
C11_Witness ==
    /\ activeSession.active
    /\ activeSession.config.categories # {}
    /\ activeSession.skippedCount = 1
    /\ activeSession.cumulativeSpent = 0
    /\ cache["m2"] = {{}}
    /\ handlers = EmptyBag
    /\ accepted = 1

\* C12: the min-size gate comes before the per-market gate: an event whose
\* planned copy notional is below minTradeSize is never skipped as
\* market-cap-reached.
C12_TooSmallBeforeCap ==
    [][\A h \in BagToSet(handlers) : \A ok \in FetchOutcomes(h) :
          (/\ MarketInfoReturn(h, ok)
           /\ PlannedCopyUsdcAmount(h.trade, h.config) < h.config.minTradeSize)
          => notice' # "cap"]_vars

\* C13: the handling of an event under a dry-run configuration is never
\* suspended inside ClobExecutor.execute (resolver and placeOrder included),
\* and the result it carries past the gates is the synthetic one:
\* success = true with the planned copy notional.
C13_DryRunNeverExecutes ==
    \A h \in BagToSet(handlers) :
        h.config.dryRun =>
            /\ h.pc # "execute"
            /\ h.pc = "notifyLimit" =>
                 /\ h.result.success
                 /\ h.result.kind = "dryRun"
                 /\ h.result.copyUsdcAmount =
                      (IF h.trade.size * h.trade.price * h.config.sizeScale
                            > h.config.maxSizePerTrade
                       THEN h.config.maxSizePerTrade
                       ELSE h.trade.size * h.trade.price * h.config.sizeScale)

\* A dry-run session has simulated a trade and a second one, past the
\* gates, carries its synthetic result to the limit notification.
C13_Witness ==
    /\ activeSession.active
    /\ activeSession.config.dryRun
    /\ activeSession.cumulativeSpent > 0
    /\ \E h \in BagToSet(handlers) :
          /\ h.config.dryRun
          /\ h.pc = "notifyLimit"
          /\ h.result.success

\* C14: at most one handleTrade invocation of a subscription is suspended
\* at any time, the feed being free to invoke the callback again before the
\* promise of the previous invocation has settled.
C14_OneHandlerPerSession ==
    \A i \in SubscriptionIds :
        /\ Cardinality(InFlight(i)) <= 1
        /\ \A h \in InFlight(i) : CopiesIn(h, handlers) = 1

\* C15: when the handling of an event resumes after the session that
\* started it was stopped, it leaves cumulativeSpent, spentByMarket and
\* skippedCount of the session then active as they are.
C15_StaleHandlerDiscarded ==
    [][\A h \in BagToSet(handlers) :
          (Stepped(h) /\ Stale(h) /\ activeSession.active /\ activeSession'.active)
          => /\ activeSession'.cumulativeSpent = activeSession.cumulativeSpent
             /\ activeSession'.spentByMarket = activeSession.spentByMarket
             /\ activeSession'.skippedCount = activeSession.skippedCount]_vars

\* C16: when the callback of a subscription that stop() has unsubscribed
\* is still invoked for an event, nothing happens: no handleTrade starts, no
\* notification is sent, and session and dedupe set stay as they are.
C16_LateEventIgnored ==
    [][\A s \in feed.ended, tr \in Trades :
          DeliverLate(s, tr) =>
            /\ handlers' = handlers
            /\ seenTransactions' = seenTransactions
            /\ activeSession' = activeSession
            /\ notice' = "none"]_vars

\* C17: stop() on an Active session ends exactly the session's
\* subscription and leaves no session and an empty dedupe set; stop() on an
\* Idle session changes nothing.
C17_StopLeavesIdle ==
    [][\A t \in BOOLEAN :
          StopCall(t) =>
            IF activeSession.active
            THEN /\ ~activeSession'.active
                 /\ liveSubs' = {s \in liveSubs : s.id # activeSession.subscription}
                 /\ seenTransactions' = <<>>
            ELSE UNCHANGED <<activeSession, liveSubs, seenTransactions>>]_vars

\* C18: when start() stores the new session, its counters are zero and the
\* dedupe set is empty, whatever happened before.
C18_FreshSession ==
    [][\A p \in starting :
          StartSubscribe(p, FALSE) =>
            /\ activeSession'.active
            /\ activeSession'.cumulativeSpent = 0
            /\ \A m \in Markets : activeSession'.spentByMarket[m] = 0
            /\ activeSession'.skippedCount = 0
            /\ seenTransactions' = <<>>]_vars

\* The session is as active as before, on the same subscription, and the
\* feed subscriptions are the same.
SessionKept ==
    /\ activeSession'.active = activeSession.active
    /\ activeSession.active =>
         activeSession'.subscription = activeSession.subscription
    /\ liveSubs' = liveSubs

\* C19: a step of the handling of an event in which something throws (the
\* resolver or placeOrder inside execute, the Gamma fetch inside the market
\* lookup, the delivery of the limit notification) is absorbed: the
\* session stays as active as it was with its subscription live, a thrown
\* execution adds nothing to the spend counters and, while the session is
\* within its limit, ends the handling with the trade message.
C19_ErrorsAbsorbed ==
    [][\A h \in BagToSet(handlers) :
          /\ (/\ ExecuteReturn(h, "threw")
              /\ h.config.minTradeSize
                   <= PlannedCopyUsdcAmount(h.trade, h.config))
             => /\ SessionKept
                /\ SpendKept
                /\ (activeSession.active /\ Truthy(h.config.totalLimit)
                      /\ activeSession.cumulativeSpent <= Value(h.config.totalLimit))
                   => (handlers' = Resume(handlers, h) /\ notice' = "trade")
          /\ (h.hit = {} /\ MarketInfoReturn(h, FALSE)) => SessionKept
          /\ \A t \in BOOLEAN :
                NotifyLimit(h, FALSE, t)
                => /\ SessionKept
                   /\ handlers' = Resume(handlers, h)]_vars

\* An execution threw in a live session with a total limit: the handling
\* ended with the trade message, nothing was spent, and the session is
\* still subscribed.
C19_Witness ==
    /\ activeSession.active
    /\ ~activeSession.config.dryRun
    /\ Truthy(activeSession.config.totalLimit)
    /\ activeSession.cumulativeSpent = 0
    /\ activeSession.skippedCount = 0
    /\ notice = "trade"
    /\ handlers = EmptyBag
    /\ accepted = 1
    /\ started = 1
    /\ \E s \in liveSubs : s.id = activeSession.subscription

\* C20: a feed error leaves the session, its subscription, the dedupe
\* set and the handlers in flight as they are; and a step that takes the
\* session from Active to Idle is a stop() call, the implicit stop of a
\* start() call, or the stop at the end of a total-limit breach.
C20_FeedErrorKeepsSession ==
    [][/\ \A s \in liveSubs :
             FeedError(s) =>
               UNCHANGED <<activeSession, liveSubs, seenTransactions, handlers>>
       /\ (activeSession.active /\ ~activeSession'.active) =>
             \/ \E t \in BOOLEAN : StopCall(t)
             \/ \E c \in Configs, t \in BOOLEAN : StartCall(c, t)
             \/ \E h \in BagToSet(handlers), t \in BOOLEAN :
                   NotifyLimit(h, TRUE, t)]_vars

\* A feed error was reported to a session that had spent something; the
\* session is still active and subscribed.
C20_Witness ==
    /\ notice = "error"
    /\ activeSession.active
    /\ activeSession.cumulativeSpent > 0
    /\ \E s \in liveSubs : s.id = activeSession.subscription

\* C21: when subscribing throws, start() rejects and no session is recorded
\* and no subscription added; when unsubscribe throws, in stop() or in the
\* implicit stop of start(), the call rejects, start() goes no further, and
\* the session is Idle; a session that is Active has its subscription live.
C21_ThrowLeavesIdle ==
    [][/\ \A p \in starting :
             StartSubscribe(p, TRUE) =>
               /\ StartSettles(TRUE) = "rejected"
               /\ ~activeSession'.active
               /\ liveSubs' = liveSubs
       /\ (activeSession.active /\ StopCall(TRUE)) =>
             /\ StopEffect(activeSession, seenTransactions, liveSubs, TRUE).threw
             /\ ~activeSession'.active
       /\ \A c \in Configs :
             (activeSession.active /\ StartCall(c, TRUE)) =>
               /\ ~activeSession'.active
               /\ starting' = {}
       /\ activeSession'.active =>
             \E s \in liveSubs' : s.id = activeSession'.subscription]_vars

\* A stop() whose unsubscribe threw: no session, no subscription, and the
\* dedupe set still holding what the session had accepted.
C21_Witness ==
    /\ ~activeSession.active
    /\ liveSubs = {}
    /\ starting = {}
    /\ seenTransactions # <<>>

\* C22: the step that ends the handling of an accepted event, in the
\* callback or in a resumed handleTrade, sends a message to the channel
\* (every earlier step of the handling sends none), the channel being
\* reachable.
C22_OneMessagePerEvent ==
    [][/\ \A s \in liveSubs, tr \in Trades :
             (accepted' = accepted + 1 /\ Deliver(s, tr)) =>
               (handlers' = handlers <=> notice' # "none")
       /\ \A h \in BagToSet(handlers) :
             (/\ Stepped(h)
              /\ h.pc = "notifyLimit" => \E t \in BOOLEAN : NotifyLimit(h, TRUE, t))
             => (handlers' = Resume(handlers, h) <=> notice' # "none")]_vars

\* C23: whatever the identifiers of the events, the empty one included, the
\* dedupe set never holds more than KeepLast identifiers; an accepted event
\* leaves it holding the KeepLast most recently first-seen identifiers,
\* oldest first, and a duplicate leaves it as it is.
C23_DedupeWindow ==
    [][\A s \in liveSubs, tr \in Trades \cup BlankTrades :
          (Deliver(s, tr) \/ DeliverBlank(s, tr)) =>
            /\ Len(seenTransactions') <= KeepLast
            /\ IF accepted' = accepted + 1
               THEN seenTransactions' =
                      Recent(Append(seenTransactions, tr.transactionHash))
               ELSE seenTransactions' = seenTransactions]_vars

\* C24: an event whose trader address is missing or is not a spelling of
\* the target address changes nothing: session, dedupe set, handlers, cache
\* and counters stay as they are and no notification is sent; an event
\* whose address spells the target in another letter case and whose
\* identifier is new is accepted into the dedupe set.
C24_AddressFilter ==
    /\ [](\A s \in liveSubs, tr \in Trades :
            IF tr.address \in {"0xabc", "0xAbC", "0xABC"}
            THEN /\ s.config.targetAddress = "0xABC"
                 /\ ~SeenHas(seenTransactions, tr.transactionHash) =>
                      /\ OnTrade(s.config, seenTransactions, tr)
                            \in {"skipOdds", "lookup"}
                      /\ SeenHas(OnTradeEffect(s, tr).seen, tr.transactionHash)
            ELSE OnTradeEffect(s, tr) =
                   [session |-> activeSession, seen |-> seenTransactions,
                    handlers |-> handlers, notice |-> "none"])
    /\ [][\A s \in liveSubs, tr \in Trades :
             (tr.address \notin {"0xabc", "0xAbC", "0xABC"} /\ Deliver(s, tr))
             => /\ UNCHANGED <<activeSession, seenTransactions, handlers,
                               cache, liveSubs, accepted>>
                /\ notice' = "none"]_vars

\* A session configured with "0xABC" has accepted an event of "0xAbC", and
\* the feed can deliver an event of another wallet, or one without an
\* address, under the identifier the dedupe set holds.
C24_Witness ==
    /\ accepted = 1
    /\ activeSession.active
    /\ activeSession.config.targetAddress = "0xABC"
    /\ \E s \in liveSubs : \E tr \in Trades, un \in Trades :
          /\ tr.address = "0xdef"
          /\ un.address = ""
          /\ tr.transactionHash \in FeedHashes(seenTransactions)
          /\ SeenHas(seenTransactions, tr.transactionHash)
          /\ un.transactionHash \in FeedHashes(seenTransactions)

\* C25: the order placeOrder has built is a market order exactly when the
\* requested type is FOK or FAK, with the planned USDC notional as its
\* amount for a BUY and the share size for a SELL, and else (GTC) a limit
\* order with the share size and expiration 0; it is posted as the
\* requested type.
C25_OrderConstruction ==
    order.pc = "postOrder" =>
        /\ order.args.postedAs = order.config.orderType
        /\ IF order.config.orderType \in {"FOK", "FAK"}
           THEN /\ order.args.kind = "market"
                /\ order.trade.side = "BUY" =>
                     order.args.amount =
                       PlannedCopyUsdcAmount(order.trade, order.config)
                /\ order.trade.side = "SELL" =>
                     /\ order.args.amount = order.params.size
                     /\ order.args.amount \in
                          RoundedSizes(order.trade, order.copyUsdcAmount)
           ELSE /\ order.config.orderType = "GTC"
                /\ order.args.kind = "limit"
                /\ order.args.size = order.params.size
                /\ order.args.expiration = 0
        /\ order.args.side = order.trade.side

\* A FAK BUY was built as a market order over 2.0448 dollars, an amount
\* that differs from its share size.
C25_Witness ==
    /\ order.pc = "postOrder"
    /\ order.config.orderType = "FAK"
    /\ order.trade.side = "BUY"
    /\ order.args.kind = "market"
    /\ order.args.amount = 204480
    /\ order.args.amount # order.params.size

\* C26: the amount of the market order built for a FOK or FAK BUY is a
\* whole number of cents: the planned USDC notional rounded down to 2
\* decimal places.
C26_BuyAmountInCents ==
    (/\ order.pc = "postOrder"
     /\ order.config.orderType \in {"FOK", "FAK"}
     /\ order.trade.side = "BUY")
    => /\ order.args.amount % Cent = 0
       /\ order.args.amount =
            (PlannedCopyUsdcAmount(order.trade, order.config) \div Cent) * Cent

\* C27: the share size execute hands to placeOrder for a SELL or a GTC
\* order is copyUsdcAmount / trade.price rounded down to 2 decimal places,
\* so it never exceeds the unrounded share size.
C27_SizeRoundedDown ==
    (/\ order.pc = "placeOrder"
     /\ (order.trade.side = "SELL" \/ order.config.orderType = "GTC"))
    => /\ order.params.size * order.trade.price <= 10 * order.copyUsdcAmount
       /\ order.params.size = (10 * order.copyUsdcAmount) \div order.trade.price

\* C28: with sizeScale in (0, 1], maxSizePerTrade > 0 and a leader notional
\* n = size * price >= 0, the copy notional execute plans is the smaller of
\* n * sizeScale and maxSizePerTrade and is not negative; 100 shares at
\* 0.65 with sizeScale 0.1 and maxSizePerTrade 10 give 6.50.
C28_PlannedNotional ==
    order.pc \in {"tooSmall", "resolve", "placeOrder", "postOrder"} =>
        LET n == order.trade.size * order.trade.price
            scaled == n * order.config.sizeScale
            max == order.config.maxSizePerTrade
            planned == order.copyUsdcAmount
        IN  /\ order.config.sizeScale \in 1..10
            /\ max > 0
            /\ n >= 0
            /\ planned \in {scaled, max}
            /\ planned <= scaled
            /\ planned <= max
            /\ planned >= 0
            /\ (n = 100 * 6500 /\ order.config.sizeScale = 1 /\ max = 10 * 100 * Cent)
                 => planned = 650 * Cent

\* A copy of 100 shares at 0.62 in full scale was planned at the cap of 10
\* dollars, below its scaled notional of 62.
C28_Witness ==
    /\ order.pc = "resolve"
    /\ order.trade.size * order.trade.price * order.config.sizeScale = 62 * 100 * Cent
    /\ order.copyUsdcAmount = order.config.maxSizePerTrade
    /\ order.copyUsdcAmount = 10 * 100 * Cent

\* C29: for every observed price, maxSlippage >= 0 and tick size, the
\* price execute hands to placeOrder is at least the observed price for a
\* BUY and at most the observed price for a SELL.
C29_SlippageDirection ==
    order.pc = "placeOrder" =>
        /\ order.trade.side = "BUY" => order.params.price >= order.trade.price
        /\ order.trade.side = "SELL" => order.params.price <= order.trade.price

\* C30: the price execute hands to placeOrder lies in [0.01, 0.99]; strictly
\* inside that range it is a multiple of the tick size at most half a tick
\* from the slippage-adjusted price, and at an end of the range the
\* slippage-adjusted price is within half a tick of the end or beyond it;
\* 0.65 with 3% slippage and tick 0.01 gives 0.67 for a BUY and 0.63 for a
\* SELL.
C30_NearestTickClamped ==
    order.pc = "placeOrder" =>
        LET tick == ParseFloat(order.params.tickSize)
            adjusted == SlippagePrice(order.trade, order.config)
            price == order.params.price
        IN  /\ price >= MinPrice
            /\ price <= MaxPrice
            /\ (price > MinPrice /\ price < MaxPrice) =>
                 /\ price % tick = 0
                 /\ 2 * (100 * price - adjusted) <= 100 * tick
                 /\ 2 * (adjusted - 100 * price) <= 100 * tick
            /\ price = MaxPrice => 2 * (100 * MaxPrice - adjusted) <= 100 * tick
            /\ price = MinPrice => 2 * (adjusted - 100 * MinPrice) <= 100 * tick
            /\ (/\ order.trade.price = 6500
                /\ order.config.maxSlippage = 3
                /\ order.params.tickSize = "0.01")
               => price = (IF order.trade.side = "BUY" THEN 6700 ELSE 6300)

\* A BUY observed at 0.65 is submitted at 0.67, the tick nearest to the
\* 0.6695 that 3% slippage gives.
C30_Witness ==
    /\ order.pc = "placeOrder"
    /\ order.trade.side = "BUY"
    /\ order.trade.price = 6500
    /\ order.config.maxSlippage = 3
    /\ order.params.tickSize = "0.01"
    /\ order.params.price = 6700

\* The result of placeOrder says success with the order id and the first
\* transaction hash of the response, if it has one.
PlacedAsAnswered ==
    /\ order.response.success
    /\ order.response.orderId = {order.posted.response.orderID}
    /\ order.response.transactionHash =
         (IF order.posted.response.transactionsHashes = <<>> THEN {}
          ELSE {order.posted.response.transactionsHashes[1]})

\* C31 as stated: a response with an error gives success = false with the
\* text of the error; a response without success or without an order id
\* gives success = false with the default unknown-error message; any other
\* response gives success = true with its order id and first transaction
\* hash; an exception gives success = false with its message; success is
\* never reported without an order id.
C31_AsStated ==
    (order.pc = "returned" /\ order.posted.kind = "posted") =>
        LET r == order.posted.response
        IN  /\ order.response.success => order.response.orderId # {}
            /\ IF order.posted.threw
               THEN /\ ~order.response.success
                    /\ order.posted.message # "" =>
                         order.response.error = order.posted.message
               ELSE IF r.error.type # "none"
               THEN /\ ~order.response.success
                    /\ order.response.error = r.error.text
               ELSE IF ~r.success \/ r.orderID = ""
               THEN /\ ~order.response.success
                    /\ order.response.error = "Unknown error - no orderID returned"
               ELSE PlacedAsAnswered

\* C31, amended: as stated, except that a response without success or
\* without an order id gives success = false with the errorMsg of the
\* response, and the default unknown-error message only when the response
\* has no errorMsg; an exception without a message gives "Unknown error".
C31_Classification ==
    (order.pc = "returned" /\ order.posted.kind = "posted") =>
        LET r == order.posted.response
        IN  /\ order.response.success => order.response.orderId # {}
            /\ order.response.orderType = order.config.orderType
            /\ IF order.posted.threw
               THEN /\ ~order.response.success
                    /\ order.response.error =
                         (IF order.posted.message # "" THEN order.posted.message
                          ELSE "Unknown error")
               ELSE IF r.error.type # "none"
               THEN /\ ~order.response.success
                    /\ order.response.error = r.error.text
               ELSE IF ~r.success \/ r.orderID = ""
               THEN /\ ~order.response.success
                    /\ order.response.error =
                         (IF r.errorMsg # "" THEN r.errorMsg
                          ELSE "Unknown error - no orderID returned")
               ELSE PlacedAsAnswered

\* The exchange answered success without an order id and with a message of
\* its own: placeOrder reports failure with that message.
C31_Witness ==
    /\ order.pc = "returned"
    /\ order.posted.kind = "posted"
    /\ ~order.posted.threw
    /\ order.posted.response.success
    /\ order.posted.response.orderID = ""
    /\ order.posted.response.error.type = "none"
    /\ order.posted.response.errorMsg = "not enough balance"
    /\ ~order.response.success
    /\ order.response.error = "not enough balance"

C33_TickAndRiskPassedOn ==
    order.pc = "postOrder" =>
        /\ "tickSize" \in DOMAIN order.args
        /\ "negRisk" \in DOMAIN order.args
        /\ order.args.tickSize = order.params.tickSize
        /\ order.args.negRisk = order.params.negRisk

\* C34: resolve answers from the cache only from an entry younger than the
\* cache lifetime; a resolve for an outcome of the market within the
\* lifetime of the entry makes no remote call; any other resolve makes
\* one, and when it succeeds the entry is replaced by one stamped with the
\* time of the replacement.
C34_CacheLifetime ==
    /\ [](resolver.returned.kind = "hit" => resolver.returned.age < CacheLifetime)
    /\ [][/\ \A o \in Outcomes :
              ResolveCall(o) =>
                IF \E e \in resolver.cache :
                      /\ resolver.now - e.timestamp < CacheLifetime
                      /\ o \in {"Yes", "NO"}
                THEN /\ resolver'.remote = resolver.remote
                     /\ resolver'.pending = resolver.pending
                     /\ resolver'.cache = resolver.cache
                     /\ resolver'.returned.kind = "hit"
                ELSE /\ resolver'.remote = resolver.remote + 1
                     /\ resolver'.pending # resolver.pending
                     /\ resolver'.returned.kind = "none"
          /\ \A c \in resolver.pending :
                FetchReturn(c, TRUE) =>
                  /\ \A e \in resolver'.cache : e.timestamp = resolver.now
                  /\ resolver'.cache # {}]_vars

\* Three resolves were made one after the other: the second was answered
\* from the cache, the third, after the lifetime, fetched again and
\* replaced the entry.
C34_Witness ==
    /\ resolver.calls = 3
    /\ resolver.remote = 2
    /\ resolver.pending = {}
    /\ resolver.returned.kind = "fetched"
    /\ \E e \in resolver.cache : e.timestamp >= CacheLifetime

\* C35: also when a start() begins while an earlier one is suspended, once
\* no start() is suspended any more every live feed subscription is the one
\* whose handle the session state holds, so at most one is live.
C35_OverlappingStarts ==
    starting = {} =>
        /\ Cardinality(liveSubs) <= 1
        /\ \A s \in liveSubs :
              activeSession.active /\ activeSession.subscription = s.id

\* The sum of the values of a map of amounts.
SumOf(f) == BagCardinality([x \in {y \in DOMAIN f : f[y] > 0} |-> f[x]])

\* The USDC of the BUY copies carried out for the active session in a
\* market, and the USDC of all its copies.
BoughtIn(m) == ledger.spent[m]["BUY"]

CarriedOut == SumOf([m \in Markets |-> ledger.spent[m]["BUY"] + ledger.spent[m]["SELL"]])

C37_MarketCapUnderConcurrency ==
    (/\ activeSession.active
     /\ Truthy(activeSession.config.totalLimit)
     /\ activeSession.config.maxTotalPerMarket # {})
        => \A m \in Markets :
              BoughtIn(m) <= Value(activeSession.config.maxTotalPerMarket)

C39_SpentIsSumOfMarkets ==
    activeSession.active
        => activeSession.cumulativeSpent = SumOf(activeSession.spentByMarket)

\* A getMarketInfo call for the key found no entry and has not returned.
Fetching(m) ==
    \E h \in BagToSet(handlers) :
        h.pc = "marketInfo" /\ h.hit = {} /\ h.trade.marketSlug = m

====
